---- MODULE Spec2Model ----
(***************************************************************************)
(* Android key attestation validator                                       *)
(* (pallets/acurast/common/src/attestation.rs).                            *)
(*                                                                         *)
(* A certificate is modelled by its parsed content; a byte string is a     *)
(* sequence over a four-valued byte, a SHA-256 digest has two bytes, a     *)
(* SHA-384 digest and a P-384 field element three, a P-256 field element   *)
(* two.  RSA is computed with numbers (modulus 77 = 7 * 11); an ECDSA      *)
(* signature is ideal: it names the point and the prehash it was made for. *)
(***************************************************************************)
EXTENDS Integers, Sequences, FiniteSets, TLC

VARIABLES
    chain,        \* the CertificateChainInput of the calls
    pc,           \* position of validate_certificate_chain: "fold", "done"
    idx,          \* number of certificates the fold has consumed
    prev_pbk,     \* fold accumulator .0 : Option<PublicKey>
    last_cert,    \* fold accumulator .1 : Option<Certificate>
    cert_ids,     \* Vec<CertificateId> under construction
    chain_result, \* result of validate_certificate_chain
    root_result,  \* result of validate_certificate_chain_root
    extensions,   \* argument of extract_attestation : Option<SequenceOf<Extension>>
    ext_result,   \* result of extract_attestation
    key_info,     \* argument of PublicKey::parse : SubjectPublicKeyInfo
    pbk_result,   \* result of PublicKey::parse
    raw_chain,    \* argument of decode_certificate_chain : the undecoded chain
    calls,        \* the calls made on one input so far, with their results
    inner_args,   \* arguments of a call of validate_rsa, validate_ecdsa or
                  \* peek_attestation_version on its own
    inner_result  \* result of that call

vars == <<chain, pc, idx, prev_pbk, last_cert, cert_ids, chain_result,
          root_result, extensions, ext_result, key_info, pbk_result, raw_chain,
          calls, inner_args, inner_result>>

chain_vars == <<chain, pc, idx, prev_pbk, last_cert, cert_ids, chain_result,
                root_result>>

ext_vars == <<extensions, ext_result>>

pbk_vars == <<key_info, pbk_result>>

inner_vars == <<inner_args, inner_result>>

other_vars == <<key_info, pbk_result, raw_chain, calls, inner_args, inner_result>>

-----------------------------------------------------------------------------
(* Bounds of the model *)

MaxChainLen == 3

MaxExtensions == 3

\* calls made one after another on the same input
MaxCalls == 3

\* certificates in an undecoded chain: one more than CHAIN_MAX_LENGTH
MaxRawLen == 6

\* bytes of a payload handed to validate_rsa or validate_ecdsa on its own
MaxPayloadLen == 2

-----------------------------------------------------------------------------
(* Program constants *)

CHAIN_MAX_LENGTH == 5

CERT_MAX_LENGTH == 3000

KEY_ATTESTATION_OID == "1.3.6.1.4.1.11129.2.1.17"

RSA_ALGORITHM == "1.2.840.113549.1.1.11"

ECDSA_WITH_SHA256_ALGORITHM == "1.2.840.10045.4.3.2"

ECDSA_WITH_SHA384_ALGORITHM == "1.2.840.10045.4.3.3"

RSA_PBK == "1.2.840.113549.1.1.1"

ECDSA_PBK == "1.2.840.10045.2.1"

CURVE_P256 == "1.2.840.10045.3.1.7"

CURVE_P384 == "1.3.132.0.34"

-----------------------------------------------------------------------------
(* Option and Result *)

None == <<>>

Some(x) == <<x>>

IsSome(o) == Len(o) = 1

Unwrap(o) == o[1]

Ok(v) == [status |-> "Ok", value |-> <<v>>, error |-> "none"]

Err(e) == [status |-> "Err", value |-> <<>>, error |-> e]

\* an abort of the call: a Rust panic (slice index out of range, zero modulus)
Panic == [status |-> "Panic", value |-> <<>>, error |-> "none"]

NotCalled == [status |-> "NotCalled", value |-> <<>>, error |-> "none"]

IsOk(r) == r.status = "Ok"

\* PublicKey::parse and decode_certificate_chain are not called, no call is recorded
\* validate_rsa, validate_ecdsa and peek_attestation_version are not called on
\* their own
InnerIdle ==
    /\ inner_args = None
    /\ inner_result = NotCalled

OthersIdle ==
    /\ key_info = None
    /\ pbk_result = NotCalled
    /\ raw_chain = <<>>
    /\ calls = <<>>
    /\ InnerIdle

-----------------------------------------------------------------------------
(* Bytes and big integers *)

Byte == 0..3

RECURSIVE FromBytesBE(_)
\* BigUint::from_bytes_be
FromBytesBE(bytes) ==
    IF bytes = <<>> THEN 0
    ELSE FromBytesBE(SubSeq(bytes, 1, Len(bytes) - 1)) * Cardinality(Byte)
         + bytes[Len(bytes)]

RECURSIVE ToBytesBE(_)
\* BigUint::to_bytes_be : no leading zero byte, and zero is the one byte 0
ToBytesBE(n) ==
    IF n < Cardinality(Byte) THEN <<n>>
    ELSE Append(ToBytesBE(n \div Cardinality(Byte)), n % Cardinality(Byte))

RECURSIVE ModPow(_, _, _)
\* BigUint::modpow for a modulus > 0
ModPow(base, exponent, modulus) ==
    IF exponent = 0 THEN 1 % modulus
    ELSE (base * ModPow(base, exponent - 1, modulus)) % modulus

RECURSIVE Mix(_, _, _)
Mix(data, mult, modulus) ==
    IF data = <<>> THEN 0
    ELSE (Mix(SubSeq(data, 1, Len(data) - 1), mult, modulus) * mult
          + data[Len(data)] + 1) % modulus

\* sha2::Sha256::digest : a two byte digest
Sha256(data) ==
    LET h == Mix(data, 5, 16) IN <<h \div 4, h % 4>>

\* sha2::Sha384::digest : a three byte digest
Sha384(data) ==
    LET h == Mix(data, 7, 64) IN <<h \div 16, (h \div 4) % 4, h % 4>>

Digest(D, data) == IF D = "Sha256" THEN Sha256(data) ELSE Sha384(data)

-----------------------------------------------------------------------------
(* Parsed structures (asn.rs) and their wire bytes *)

\* the content bytes of an OBJECT IDENTIFIER
OidBytes(oid) ==
    CASE oid = RSA_ALGORITHM -> <<1, 1>>
      [] oid = ECDSA_WITH_SHA256_ALGORITHM -> <<1, 2>>
      [] oid = ECDSA_WITH_SHA384_ALGORITHM -> <<1, 3>>
      [] oid = RSA_PBK -> <<2, 1>>
      [] oid = ECDSA_PBK -> <<2, 2>>
      [] oid = CURVE_P256 -> <<3, 1>>
      [] oid = CURVE_P384 -> <<3, 2>>
      [] oid = KEY_ATTESTATION_OID -> <<3, 3>>
      [] OTHER -> <<0, 0>>

\* Option<Tlv> parameters of an AlgorithmIdentifier
ParamBytes(parameters) ==
    IF IsSome(parameters) THEN OidBytes(Unwrap(parameters).value) ELSE <<>>

\* the extensions as they stand in the tbsCertificate
ExtensionsBytes(exts) ==
    IF IsSome(exts) THEN <<Len(Unwrap(exts))>> ELSE <<>>

\* TBSCertificate.full_data(): the DER bytes of the tbsCertificate on the wire
EncodeTbs(tbs) ==
    tbs.serial_number
    \o OidBytes(tbs.signature.algorithm)
    \o tbs.issuer
    \o tbs.subject
    \o OidBytes(tbs.subject_public_key_info.algorithm.algorithm)
    \o ParamBytes(tbs.subject_public_key_info.algorithm.parameters)
    \o tbs.subject_public_key_info.subject_public_key.bytes
    \o ExtensionsBytes(tbs.extensions)

\* asn1::parse_single::<Certificate>
parse_cert(serialized) ==
    IF serialized.der = "Certificate"
    THEN Ok([tbs_certificate |-> serialized.tbs_certificate,
             signature_algorithm |-> serialized.signature_algorithm,
             signature_value |-> serialized.signature_value])
    ELSE Err("ParseError")

\* asn1::parse_single::<CertificateRawPayload>, then full_data()
parse_cert_payload(serialized) ==
    IF serialized.der = "Certificate"
    THEN Ok(EncodeTbs(serialized.tbs_certificate))
    ELSE Err("ParseError")

\* asn1::write_single(issuer): tag, length, content
write_single(issuer) == <<3, Len(issuer)>> \o issuer

\* writing a parsed Name back never fails: InvalidIssuer does not occur
unique_id(issuer, serial_number) ==
    Ok(<<write_single(issuer), serial_number>>)

-----------------------------------------------------------------------------
(* Public keys *)

RSAPbk(exponent, modulus) ==
    [kind |-> "RSA", exponent |-> exponent, modulus |-> modulus,
     curve |-> "none", point |-> <<>>]

ECDSAKey(curve, point) ==
    [kind |-> "ECDSA", exponent |-> 0, modulus |-> 0,
     curve |-> curve, point |-> point]

\* asn1::parse_single::<RSAPublicKey> and the two from_bytes_be
parse_rsa_pbk(data) ==
    IF IsSome(data.rsa)
    THEN Ok(RSAPbk(FromBytesBE(Unwrap(data.rsa).exponent),
                   FromBytesBE(Unwrap(data.rsa).modulus)))
    ELSE Err("ParseError")

\* the SEC1 encodings of the points of the P-256 curve
P256Points == {<<0, 1, 0, 2, 1>>, <<0, 3, 1, 0, 2>>}

\* VerifyingKey::from_sec1_bytes
from_sec1_bytes(bytes) ==
    IF bytes \in P256Points
    THEN Ok(ECDSAKey("CurveP256", <<SubSeq(bytes, 2, 3), SubSeq(bytes, 4, 5)>>))
    ELSE Err("ParseP256PublicKey")

\* p384::FieldElement::from_be_slice : a field element has three bytes
from_be_slice(slice) == Len(slice) = 3

\* the CURVE_P384 arm of PublicKey::parse; [1..] of an empty bit string aborts,
\* a coordinate of the wrong length is the error of from_be_slice
parse_p384(bytes) ==
    IF bytes = <<>> THEN Panic
    ELSE LET encoded == Tail(bytes)
             middle == Len(encoded) \div 2
             x == SubSeq(encoded, 1, middle)
             y == SubSeq(encoded, middle + 1, Len(encoded))
         IN  IF from_be_slice(x) /\ from_be_slice(y)
             THEN Ok(ECDSAKey("CurveP384", <<x, y>>))
             ELSE Err("ParseP384PublicKey")

\* faulty variant: the errors of the two `_ =>` arms are exchanged
PublicKeyParseExchanged(info) ==
    CASE info.algorithm.algorithm = RSA_PBK ->
            parse_rsa_pbk(info.subject_public_key)
      [] info.algorithm.algorithm = ECDSA_PBK ->
            IF ~IsSome(info.algorithm.parameters)
            THEN Err("MissingECDSAAlgorithmTyp")
            ELSE IF Unwrap(info.algorithm.parameters).tag # "OBJECT IDENTIFIER"
            THEN Err("ParseError")
            ELSE LET typ == Unwrap(info.algorithm.parameters).value
                 IN  CASE typ = CURVE_P256 ->
                            from_sec1_bytes(info.subject_public_key.bytes)
                       [] typ = CURVE_P384 ->
                            parse_p384(info.subject_public_key.bytes)
                       [] OTHER -> Err("UnsupportedPublicKeyAlgorithm")
      [] OTHER -> Err("UnsupportedSignatureAlgorithm")

\* PublicKey::parse
PublicKeyParse(info) ==
    CASE info.algorithm.algorithm = RSA_PBK ->
            parse_rsa_pbk(info.subject_public_key)
      [] info.algorithm.algorithm = ECDSA_PBK ->
            IF ~IsSome(info.algorithm.parameters)
            THEN Err("MissingECDSAAlgorithmTyp")
            ELSE IF Unwrap(info.algorithm.parameters).tag # "OBJECT IDENTIFIER"
            THEN Err("ParseError")
            ELSE LET typ == Unwrap(info.algorithm.parameters).value
                 IN  CASE typ = CURVE_P256 ->
                            from_sec1_bytes(info.subject_public_key.bytes)
                       [] typ = CURVE_P384 ->
                            parse_p384(info.subject_public_key.bytes)
                       [] OTHER -> Err("UnsupportedSignatureAlgorithm")
      [] OTHER -> Err("UnsupportedPublicKeyAlgorithm")

-----------------------------------------------------------------------------
(* Signature verification *)

\* line 211: &computed[computed.len() - hashed.len()..]
Unpadded(computed, hashed) ==
    SubSeq(computed, Len(computed) - Len(hashed) + 1, Len(computed))

\* faulty variant: the whole of s^e mod n is compared with the digest
validate_rsa_whole(payload, signature, pbk) ==
    IF pbk.modulus = 0 THEN Panic
    ELSE LET signature_num == FromBytesBE(signature.bytes)
             computed == ToBytesBE(ModPow(signature_num, pbk.exponent, pbk.modulus))
             hashed == Sha256(payload)
         IN  IF hashed # computed THEN Err("InvalidSignature") ELSE Ok("unit")

\* faulty variant: the bytes before the digest have to be the one byte 01
validate_rsa_strict(payload, signature, pbk) ==
    IF pbk.modulus = 0 THEN Panic
    ELSE LET signature_num == FromBytesBE(signature.bytes)
             computed == ToBytesBE(ModPow(signature_num, pbk.exponent, pbk.modulus))
             hashed == Sha256(payload)
         IN  IF Len(computed) < Len(hashed) THEN Panic
             ELSE IF computed # <<1>> \o hashed
             THEN Err("InvalidSignature")
             ELSE Ok("unit")

validate_rsa(payload, signature, pbk) ==
    IF pbk.modulus = 0 THEN Panic
    ELSE LET signature_num == FromBytesBE(signature.bytes)
             computed == ToBytesBE(ModPow(signature_num, pbk.exponent, pbk.modulus))
             hashed == Sha256(payload)
         IN  IF Len(computed) < Len(hashed) THEN Panic
             ELSE IF hashed # Unpadded(computed, hashed)
             THEN Err("InvalidSignature")
             ELSE Ok("unit")

\* Signature::from_der for a curve whose scalars have `size` bytes
from_der(signature, size) ==
    IsSome(signature.ecdsa) /\ Len(Unwrap(signature.ecdsa).point[1]) <= size

\* the ECDSA verification primitive: the signature was made by `point` over `prehash`
verify_prehashed(point, prehash, signature) ==
    /\ Unwrap(signature.ecdsa).point = point
    /\ Unwrap(signature.ecdsa).prehash = prehash

\* p256 VerifyingKey::verify : hashes the message with SHA-256
p256_verify(point, payload, signature) ==
    verify_prehashed(point, Sha256(payload), signature)

\* faulty variant: the zero bytes are put behind the digest
PaddedRight(hashed) ==
    IF Len(hashed) = 2 THEN hashed \o <<0>> ELSE hashed

\* lines 240-246: the 48 byte prehash of the P-384 arm
Padded(hashed) ==
    IF Len(hashed) = 2 THEN <<0>> \o hashed ELSE hashed

validate_ecdsa(D, payload, signature, curve) ==
    IF curve.curve = "CurveP256"
    THEN IF ~from_der(signature, 2) THEN Err("InvalidSignatureEncoding")
         ELSE IF ~p256_verify(curve.point, payload, signature)
         THEN Err("InvalidSignature")
         ELSE Ok("unit")
    ELSE IF ~from_der(signature, 3) THEN Err("InvalidSignatureEncoding")
         ELSE IF ~verify_prehashed(curve.point, Padded(Digest(D, payload)), signature)
         THEN Err("InvalidSignature")
         ELSE Ok("unit")

\* faulty variant: the two algorithm identifiers are not compared
validate_unchecked(cert, payload, pbk) ==
    CASE cert.signature_algorithm.algorithm = RSA_ALGORITHM ->
            IF pbk.kind = "RSA"
            THEN validate_rsa(payload, cert.signature_value, pbk)
            ELSE Err("UnsupportedPublicKeyAlgorithm")
      [] cert.signature_algorithm.algorithm = ECDSA_WITH_SHA256_ALGORITHM ->
            IF pbk.kind = "ECDSA"
            THEN validate_ecdsa("Sha256", payload, cert.signature_value, pbk)
            ELSE Err("UnsupportedPublicKeyAlgorithm")
      [] cert.signature_algorithm.algorithm = ECDSA_WITH_SHA384_ALGORITHM ->
            IF pbk.kind = "ECDSA"
            THEN validate_ecdsa("Sha384", payload, cert.signature_value, pbk)
            ELSE Err("UnsupportedPublicKeyAlgorithm")
      [] OTHER -> Err("UnsupportedSignatureAlgorithm")

\* faulty variant: the verification is chosen by the kind of the key alone
validate_by_key_kind(cert, payload, pbk) ==
    IF cert.signature_algorithm.algorithm # cert.tbs_certificate.signature.algorithm
    THEN Err("SignatureMismatch")
    ELSE IF pbk.kind = "RSA"
    THEN validate_rsa(payload, cert.signature_value, pbk)
    ELSE validate_ecdsa("Sha256", payload, cert.signature_value, pbk)

validate(cert, payload, pbk) ==
    IF cert.signature_algorithm.algorithm # cert.tbs_certificate.signature.algorithm
    THEN Err("SignatureMismatch")
    ELSE CASE cert.signature_algorithm.algorithm = RSA_ALGORITHM ->
                IF pbk.kind = "RSA"
                THEN validate_rsa(payload, cert.signature_value, pbk)
                ELSE Err("UnsupportedPublicKeyAlgorithm")
           [] cert.signature_algorithm.algorithm = ECDSA_WITH_SHA256_ALGORITHM ->
                IF pbk.kind = "ECDSA"
                THEN validate_ecdsa("Sha256", payload, cert.signature_value, pbk)
                ELSE Err("UnsupportedPublicKeyAlgorithm")
           [] cert.signature_algorithm.algorithm = ECDSA_WITH_SHA384_ALGORITHM ->
                IF pbk.kind = "ECDSA"
                THEN validate_ecdsa("Sha384", payload, cert.signature_value, pbk)
                ELSE Err("UnsupportedPublicKeyAlgorithm")
           [] OTHER -> Err("UnsupportedSignatureAlgorithm")

-----------------------------------------------------------------------------
(* The certificates of the model: what a certificate authority issues, and *)
(* what an attacker makes of it                                            *)

GoogleName == <<1>>

Alg(oid) == [algorithm |-> oid]

RsaSpki ==
    [algorithm |-> [algorithm |-> RSA_PBK,
                    parameters |-> Some([tag |-> "NULL", value |-> "NULL"])],
     subject_public_key |->
        [rsa |-> Some([modulus |-> ToBytesBE(77), exponent |-> ToBytesBE(7)]),
         bytes |-> <<3>> \o ToBytesBE(77) \o ToBytesBE(7)]]

EcSpki(curve_oid, bytes) ==
    [algorithm |-> [algorithm |-> ECDSA_PBK,
                    parameters |-> Some([tag |-> "OBJECT IDENTIFIER",
                                         value |-> curve_oid])],
     subject_public_key |-> [rsa |-> None, bytes |-> bytes]]

P256SpkiA == EcSpki(CURVE_P256, <<0, 1, 0, 2, 1>>)

P256SpkiB == EcSpki(CURVE_P256, <<0, 3, 1, 0, 2>>)

P384Spki == EcSpki(CURVE_P384, <<0, 1, 2, 3, 3, 0, 1>>)

\* a tbsCertificate with the names of its issuer and its subject
NamedTbs(serial, issuer, subject, oid, spki, exts) ==
    [serial_number |-> serial, signature |-> Alg(oid), issuer |-> issuer,
     subject |-> subject, subject_public_key_info |-> spki, extensions |-> exts]

\* a tbsCertificate whose subject has the empty name
Tbs(serial, issuer, oid, spki, exts) ==
    NamedTbs(serial, issuer, <<>>, oid, spki, exts)

Cert(tbs, oid, signature) ==
    [der |-> "Certificate", tbs_certificate |-> tbs,
     signature_algorithm |-> Alg(oid), signature_value |-> signature]

\* RSA PKCS#1 signature with the private exponent of RsaSpki: (01 || digest)^d mod n
RsaSign(payload) ==
    [bytes |-> ToBytesBE(ModPow(FromBytesBE(<<1>> \o Sha256(payload)), 43, 77)),
     ecdsa |-> None]

\* ECDSA signature with the private key of `point` over `prehash`
EcdsaSign(point, prehash) ==
    [bytes |-> <<3, 0>>, ecdsa |-> Some([point |-> point, prehash |-> prehash])]

PointOf(spki) == Unwrap(PublicKeyParse(spki).value).point

\* a certificate issued by the RSA root key
RsaIssued(tbs) == Cert(tbs, RSA_ALGORITHM, RsaSign(EncodeTbs(tbs)))

\* a certificate issued by the key of signer_spki, signed over `prehash`
EcdsaIssued(tbs, signer_spki, prehash) ==
    Cert(tbs, tbs.signature.algorithm, EcdsaSign(PointOf(signer_spki), prehash))

\* the last byte of the signature replaced (PIXEL_KEY_CERT_INVALID)
Tamper(cert) ==
    LET sig == cert.signature_value
        n == Len(sig.bytes)
        flip(b) == [b EXCEPT ![Len(b)] = (b[Len(b)] + 1) % Cardinality(Byte)]
    IN  [cert EXCEPT !.signature_value =
            [bytes |-> flip(sig.bytes),
             ecdsa |-> IF IsSome(sig.ecdsa)
                       THEN Some([Unwrap(sig.ecdsa) EXCEPT
                                    !.prehash = flip(Unwrap(sig.ecdsa).prehash)])
                       ELSE None]]

TrustedRoot1 == RsaIssued(Tbs(<<1>>, GoogleName, RSA_ALGORITHM, RsaSpki, None))

TrustedRoot2 == RsaIssued(Tbs(<<2>>, GoogleName, RSA_ALGORITHM, RsaSpki, None))

\* The list of trusted root certificates: two of the four, which all carry the
\* same RSA key and differ in serial number and validity
TRUSTED_ROOT_CERTS == {TrustedRoot1, TrustedRoot2}

\* PIXEL_ROOT_CERT_UNTRUSTED: a trusted root with one byte changed
UntrustedRoot == Tamper(TrustedRoot1)

Intermediate256 ==
    RsaIssued(Tbs(<<3>>, GoogleName, RSA_ALGORITHM, P256SpkiA, None))

Intermediate384 ==
    RsaIssued(Tbs(<<3, 1>>, GoogleName, RSA_ALGORITHM, P384Spki, None))

LeafTbs(oid, issuer) == Tbs(<<1>>, issuer, oid, P256SpkiB, None)

\* a key certificate issued by Intermediate256 with ECDSA-SHA256
KeyCert ==
    LET tbs == LeafTbs(ECDSA_WITH_SHA256_ALGORITHM, <<2>>)
    IN  EcdsaIssued(tbs, P256SpkiA, Sha256(EncodeTbs(tbs)))

\* a key certificate issued by Intermediate384 with ECDSA-SHA384
KeyCert384 ==
    LET tbs == LeafTbs(ECDSA_WITH_SHA384_ALGORITHM, <<3>>)
    IN  EcdsaIssued(tbs, P384Spki, Sha384(EncodeTbs(tbs)))

\* PIXEL_KEY_CERT_INVALID
KeyCertInvalid == Tamper(KeyCert)

\* a key certificate signed with the key it certifies
SelfSignedKeyCert ==
    LET tbs == LeafTbs(ECDSA_WITH_SHA256_ALGORITHM, <<2, 2>>)
    IN  EcdsaIssued(tbs, P256SpkiB, Sha256(EncodeTbs(tbs)))

\* names ECDSA-SHA384, signed by the P-256 key of Intermediate256 over SHA-256
MislabelledKeyCert ==
    LET tbs == LeafTbs(ECDSA_WITH_SHA384_ALGORITHM, <<2>>)
    IN  EcdsaIssued(tbs, P256SpkiA, Sha256(EncodeTbs(tbs)))

\* names RSA-SHA256 and carries the signature 0
ZeroSignedKeyCert ==
    Cert(LeafTbs(RSA_ALGORITHM, GoogleName), RSA_ALGORITHM,
         [bytes |-> <<0>>, ecdsa |-> None])

\* bytes that are no DER certificate
Garbage == [Tamper(KeyCert) EXCEPT !.der = "garbage"]

\* a signature algorithm the validator does not know: sha1WithRSAEncryption
Sha1WithRsa == "1.2.840.113549.1.1.5"

\* KeyCert with the outer signatureAlgorithm changed to ECDSA-SHA384
MismatchedKeyCert ==
    [KeyCert EXCEPT !.signature_algorithm = Alg(ECDSA_WITH_SHA384_ALGORITHM)]

\* KeyCert with the outer signatureAlgorithm changed to an unknown one
UnknownOuterKeyCert ==
    [KeyCert EXCEPT !.signature_algorithm = Alg(Sha1WithRsa)]

\* a key certificate that names the unknown algorithm in both places
UnknownAlgorithmKeyCert ==
    LET tbs == LeafTbs(Sha1WithRsa, <<2>>)
    IN  Cert(tbs, Sha1WithRsa, RsaSign(EncodeTbs(tbs)))

\* a subject public key of an algorithm the validator does not know (DSA)
DsaSpki ==
    [algorithm |-> [algorithm |-> "1.2.840.10040.4.1", parameters |-> None],
     subject_public_key |-> [rsa |-> None, bytes |-> <<0, 1>>]]

\* a certificate for a DSA key, issued by Intermediate256 with ECDSA-SHA256
DsaKeyCert ==
    LET tbs == Tbs(<<1>>, <<2>>, ECDSA_WITH_SHA256_ALGORITHM, DsaSpki, None)
    IN  EcdsaIssued(tbs, P256SpkiA, Sha256(EncodeTbs(tbs)))

\* the same with the last byte of the signature replaced
DsaKeyCertInvalid == Tamper(DsaKeyCert)

Certificates ==
    {TrustedRoot1, TrustedRoot2, UntrustedRoot, Intermediate256, Intermediate384,
     KeyCert, KeyCert384, KeyCertInvalid, SelfSignedKeyCert, MislabelledKeyCert,
     ZeroSignedKeyCert, Garbage, MismatchedKeyCert, UnknownOuterKeyCert,
     UnknownAlgorithmKeyCert, DsaKeyCert, DsaKeyCertInvalid}

\* CertificateChainInput: the chains of at most MaxChainLen certificates
Chains ==
    UNION {[1..n -> Certificates] :
             n \in {m \in 0..MaxChainLen : m <= CHAIN_MAX_LENGTH}}

-----------------------------------------------------------------------------
(* validate_certificate_chain_root *)

\* faulty variant: the root is recognised by its tbsCertificate, not by all its bytes
validate_certificate_chain_root_by_tbs(c) ==
    IF c = <<>> THEN Err("ChainTooShort")
    ELSE IF c[1].tbs_certificate
              \notin {r.tbs_certificate : r \in TRUSTED_ROOT_CERTS}
    THEN Err("UntrustedRoot")
    ELSE Ok("unit")

validate_certificate_chain_root(c) ==
    IF c = <<>> THEN Err("ChainTooShort")
    ELSE IF c[1] \notin TRUSTED_ROOT_CERTS THEN Err("UntrustedRoot")
    ELSE Ok("unit")

-----------------------------------------------------------------------------
(* validate_certificate_chain *)

\* faulty variant: every certificate is verified with its own key
VerifierOwnKey(prev, current_pbk) == current_pbk

\* faulty variant: the first certificate is verified with the key of the trusted roots
VerifierRootKey(prev, current_pbk) ==
    IF IsSome(prev) THEN Unwrap(prev) ELSE Unwrap(PublicKeyParse(RsaSpki).value)

\* line 308: prev_pbk.as_ref().unwrap_or(&current_pbk)
Verifier(prev, current_pbk) ==
    IF IsSome(prev) THEN Unwrap(prev) ELSE current_pbk

\* faulty variant: the id is put in front
PushFront(ids, id) == <<id>> \o ids

\* line 314: cert_ids.push(unique_id)
Push(ids, id) == Append(ids, id)

\* faulty variant: a failed signature verification does not end the fold
FoldClosureLenient(prev, cert_data) ==
    LET parsed == parse_cert(cert_data)
        raw == parse_cert_payload(cert_data)
    IN
    IF ~IsOk(parsed) THEN parsed
    ELSE IF ~IsOk(raw) THEN raw
    ELSE
    LET cert == Unwrap(parsed.value)
        parsed_pbk == PublicKeyParse(cert.tbs_certificate.subject_public_key_info)
    IN
    IF ~IsOk(parsed_pbk) THEN parsed_pbk
    ELSE
    LET current_pbk == Unwrap(parsed_pbk.value)
        id == unique_id(cert.tbs_certificate.issuer,
                        cert.tbs_certificate.serial_number)
    IN
    IF ~IsOk(id) THEN id
    ELSE Ok([pbk |-> Some(current_pbk), cert |-> Some(cert),
             id |-> Unwrap(id.value)])

\* faulty variant: the key the certificate was verified with is passed on
FoldClosureKeepsKey(prev, cert_data) ==
    LET parsed == parse_cert(cert_data)
        raw == parse_cert_payload(cert_data)
    IN
    IF ~IsOk(parsed) THEN parsed
    ELSE IF ~IsOk(raw) THEN raw
    ELSE
    LET cert == Unwrap(parsed.value)
        payload == Unwrap(raw.value)
        parsed_pbk == PublicKeyParse(cert.tbs_certificate.subject_public_key_info)
    IN
    IF ~IsOk(parsed_pbk) THEN parsed_pbk
    ELSE
    LET current_pbk == Unwrap(parsed_pbk.value)
        checked == validate(cert, payload, Verifier(prev, current_pbk))
        id == unique_id(cert.tbs_certificate.issuer,
                        cert.tbs_certificate.serial_number)
    IN
    IF ~IsOk(checked) THEN checked
    ELSE IF ~IsOk(id) THEN id
    ELSE Ok([pbk |-> Some(Verifier(prev, current_pbk)), cert |-> Some(cert),
             id |-> Unwrap(id.value)])

\* faulty variant: no key is passed on
FoldClosureNoKey(prev, cert_data) ==
    LET parsed == parse_cert(cert_data)
        raw == parse_cert_payload(cert_data)
    IN
    IF ~IsOk(parsed) THEN parsed
    ELSE IF ~IsOk(raw) THEN raw
    ELSE
    LET cert == Unwrap(parsed.value)
        payload == Unwrap(raw.value)
        parsed_pbk == PublicKeyParse(cert.tbs_certificate.subject_public_key_info)
    IN
    IF ~IsOk(parsed_pbk) THEN parsed_pbk
    ELSE
    LET current_pbk == Unwrap(parsed_pbk.value)
        checked == validate(cert, payload, Verifier(prev, current_pbk))
        id == unique_id(cert.tbs_certificate.issuer,
                        cert.tbs_certificate.serial_number)
    IN
    IF ~IsOk(checked) THEN checked
    ELSE IF ~IsOk(id) THEN id
    ELSE Ok([pbk |-> None, cert |-> Some(cert),
             id |-> Unwrap(id.value)])

\* faulty variant: the signature is verified before the key is extracted
FoldClosureVerifiesFirst(prev, cert_data) ==
    LET parsed == parse_cert(cert_data)
        raw == parse_cert_payload(cert_data)
    IN
    IF ~IsOk(parsed) THEN parsed
    ELSE IF ~IsOk(raw) THEN raw
    ELSE
    LET cert == Unwrap(parsed.value)
        payload == Unwrap(raw.value)
        early == IF IsSome(prev) THEN validate(cert, payload, Unwrap(prev))
                 ELSE Ok("unit")
        parsed_pbk == PublicKeyParse(cert.tbs_certificate.subject_public_key_info)
    IN
    IF ~IsOk(early) THEN early
    ELSE IF ~IsOk(parsed_pbk) THEN parsed_pbk
    ELSE
    LET current_pbk == Unwrap(parsed_pbk.value)
        checked == validate(cert, payload, Verifier(prev, current_pbk))
        id == unique_id(cert.tbs_certificate.issuer,
                        cert.tbs_certificate.serial_number)
    IN
    IF ~IsOk(checked) THEN checked
    ELSE IF ~IsOk(id) THEN id
    ELSE Ok([pbk |-> Some(current_pbk), cert |-> Some(cert),
             id |-> Unwrap(id.value)])

\* faulty variant: a first certificate must name itself as its issuer
FoldClosureSelfIssuedRoot(prev, cert_data) ==
    LET parsed == parse_cert(cert_data)
        raw == parse_cert_payload(cert_data)
    IN
    IF ~IsOk(parsed) THEN parsed
    ELSE IF ~IsOk(raw) THEN raw
    ELSE
    LET cert == Unwrap(parsed.value)
        payload == Unwrap(raw.value)
        parsed_pbk == PublicKeyParse(cert.tbs_certificate.subject_public_key_info)
    IN
    IF ~IsOk(parsed_pbk) THEN parsed_pbk
    ELSE IF /\ ~IsSome(prev)
            /\ cert.tbs_certificate.issuer # cert.tbs_certificate.subject
    THEN Err("InvalidIssuer")
    ELSE
    LET current_pbk == Unwrap(parsed_pbk.value)
        checked == validate(cert, payload, Verifier(prev, current_pbk))
        id == unique_id(cert.tbs_certificate.issuer,
                        cert.tbs_certificate.serial_number)
    IN
    IF ~IsOk(checked) THEN checked
    ELSE IF ~IsOk(id) THEN id
    ELSE Ok([pbk |-> Some(current_pbk), cert |-> Some(cert),
             id |-> Unwrap(id.value)])

\* the closure of try_fold, lines 303-319
FoldClosure(prev, cert_data) ==
    LET parsed == parse_cert(cert_data)
        raw == parse_cert_payload(cert_data)
    IN
    IF ~IsOk(parsed) THEN parsed
    ELSE IF ~IsOk(raw) THEN raw
    ELSE
    LET cert == Unwrap(parsed.value)
        payload == Unwrap(raw.value)
        parsed_pbk == PublicKeyParse(cert.tbs_certificate.subject_public_key_info)
    IN
    IF ~IsOk(parsed_pbk) THEN parsed_pbk
    ELSE
    LET current_pbk == Unwrap(parsed_pbk.value)
        checked == validate(cert, payload, Verifier(prev, current_pbk))
        id == unique_id(cert.tbs_certificate.issuer,
                        cert.tbs_certificate.serial_number)
    IN
    IF ~IsOk(checked) THEN checked
    ELSE IF ~IsOk(id) THEN id
    ELSE Ok([pbk |-> Some(current_pbk), cert |-> Some(cert),
             id |-> Unwrap(id.value)])

\* faulty variant: the key is looked at before the certificate
FoldResultKeyFirst(pbk, cert, ids) ==
    IF ~IsSome(pbk) THEN Err("MissingPublicKey")
    ELSE IF ~IsSome(cert) THEN Err("ChainTooShort")
    ELSE Ok([cert_ids |-> ids,
             tbs_certificate |-> Unwrap(cert).tbs_certificate,
             pbk |-> Unwrap(pbk)])

\* lines 322-326
FoldResult(pbk, cert, ids) ==
    IF ~IsSome(cert) THEN Err("ChainTooShort")
    ELSE IF ~IsSome(pbk) THEN Err("MissingPublicKey")
    ELSE Ok([cert_ids |-> ids,
             tbs_certificate |-> Unwrap(cert).tbs_certificate,
             pbk |-> Unwrap(pbk)])

Init ==
    /\ chain \in Chains
    /\ pc = "fold"
    /\ idx = 0
    /\ prev_pbk = None
    /\ last_cert = None
    /\ cert_ids = <<>>
    /\ chain_result = NotCalled
    /\ root_result = NotCalled
    /\ extensions = None
    /\ ext_result = NotCalled
    /\ OthersIdle

ValidateCertificateChainRoot ==
    /\ root_result = NotCalled
    /\ root_result' = validate_certificate_chain_root(chain)
    /\ UNCHANGED <<chain, pc, idx, prev_pbk, last_cert, cert_ids, chain_result>>
    /\ UNCHANGED ext_vars
    /\ UNCHANGED other_vars

\* one iteration of the try_fold of validate_certificate_chain
FoldStep ==
    /\ pc = "fold"
    /\ idx < Len(chain)
    /\ LET r == FoldClosure(prev_pbk, chain[idx + 1])
       IN  IF IsOk(r)
           THEN /\ prev_pbk' = Unwrap(r.value).pbk
                /\ last_cert' = Unwrap(r.value).cert
                /\ cert_ids' = Push(cert_ids, Unwrap(r.value).id)
                /\ idx' = idx + 1
                /\ UNCHANGED <<pc, chain_result>>
           ELSE /\ chain_result' = r
                /\ pc' = "done"
                /\ UNCHANGED <<idx, prev_pbk, last_cert, cert_ids>>
    /\ UNCHANGED <<chain, root_result>>
    /\ UNCHANGED ext_vars
    /\ UNCHANGED other_vars

\* the fold is through: lines 322-326
FoldEnd ==
    /\ pc = "fold"
    /\ idx = Len(chain)
    /\ chain_result' = FoldResult(prev_pbk, last_cert, cert_ids)
    /\ pc' = "done"
    /\ UNCHANGED <<chain, idx, prev_pbk, last_cert, cert_ids, root_result>>
    /\ UNCHANGED ext_vars
    /\ UNCHANGED other_vars

Next ==
    \/ ValidateCertificateChainRoot
    \/ FoldStep
    \/ FoldEnd

Spec == Init /\ [][Next]_vars

-----------------------------------------------------------------------------
(* extract_attestation *)

\* the DER value of an extension: an outer SEQUENCE (or something else), its
\* first element, the schema its remaining elements conform to, and whether
\* bytes follow the outer element
ExtnValue(der, first, rest, trailing) ==
    [der |-> der, first |-> first, rest |-> rest, trailing |-> trailing]

Integer(n) == Some([tag |-> "INTEGER", value |-> n])

\* an INTEGER whose content has nine bytes: one more than an i64 holds
WideInteger == FromBytesBE(<<1, 0, 0, 0, 0, 0, 0, 0, 0>>)

\* d.read_element::<i64>() : an INTEGER of at most eight content bytes
read_i64(element) ==
    IF /\ IsSome(element)
       /\ Unwrap(element).tag = "INTEGER"
       /\ Len(ToBytesBE(Unwrap(element).value)) <= 8
    THEN Ok(Unwrap(element).value)
    ELSE Err("ParseError")

KeyDescriptionValue(version, schema) ==
    ExtnValue("SEQUENCE", Integer(version), schema, FALSE)

ExtnValues ==
    {KeyDescriptionValue(1, "KeyDescriptionV1"),
     KeyDescriptionValue(2, "KeyDescriptionV2"),
     KeyDescriptionValue(3, "KeyDescriptionV3"),
     KeyDescriptionValue(4, "KeyDescriptionV4"),
     KeyDescriptionValue(100, "KeyDescriptionKeyMint"),
     KeyDescriptionValue(200, "KeyDescriptionKeyMint"),
     KeyDescriptionValue(300, "KeyDescriptionKeyMint"),
     KeyDescriptionValue(999, "KeyDescriptionKeyMint"),
     KeyDescriptionValue(4, "KeyDescriptionKeyMint"),
     KeyDescriptionValue(WideInteger, "KeyDescriptionKeyMint"),
     ExtnValue("SEQUENCE", Integer(999), "KeyDescriptionKeyMint", TRUE),
     ExtnValue("SEQUENCE", None, "none", FALSE),
     ExtnValue("SEQUENCE", Some([tag |-> "OCTET STRING", value |-> 0]),
               "none", FALSE),
     ExtnValue("OCTET STRING", None, "none", FALSE)}

Extension(extn_id, extn_value) ==
    [extn_id |-> extn_id, extn_value |-> extn_value]

\* extensions of another kind (subjectKeyIdentifier): two values are enough
OtherExtensions ==
    {Extension("2.5.29.14", KeyDescriptionValue(3, "KeyDescriptionV3")),
     Extension("2.5.29.14", ExtnValue("OCTET STRING", None, "none", FALSE))}

Extensions ==
    {Extension(KEY_ATTESTATION_OID, v) : v \in ExtnValues} \cup OtherExtensions

\* Option<SequenceOf<Extension>> with at most MaxExtensions extensions
ExtensionInputs ==
    {None} \cup {Some(s) : s \in UNION {[1..n -> Extensions] : n \in 0..MaxExtensions}}

\* the schema each supported version is parsed against
SchemaOf(version) ==
    CASE version = 1 -> "KeyDescriptionV1"
      [] version = 2 -> "KeyDescriptionV2"
      [] version = 3 -> "KeyDescriptionV3"
      [] version = 4 -> "KeyDescriptionV4"
      [] version \in {100, 200, 300} -> "KeyDescriptionKeyMint"

\* faulty variant: the three KeyMint versions all get the tag V100
VariantOfKeyMint(version) ==
    CASE version = 1 -> "V1"
      [] version = 2 -> "V2"
      [] version = 3 -> "V3"
      [] version = 4 -> "V4"
      [] version \in {100, 200, 300} -> "V100"

\* lines 61-96: the KeyDescription variant each arm of the match builds
VariantOf(version) ==
    CASE version = 1 -> "V1"
      [] version = 2 -> "V2"
      [] version = 3 -> "V3"
      [] version = 4 -> "V4"
      [] version = 100 -> "V100"
      [] version = 200 -> "V200"
      [] version = 300 -> "V300"

\* asn1::parse_single::<KeyDescriptionV1 .. KeyDescriptionKeyMint>
ParseKeyDescription(schema, data) ==
    IF /\ data.der = "SEQUENCE"
       /\ ~data.trailing
       /\ IsOk(read_i64(data.first))
       /\ data.rest = schema
    THEN Ok([attestation_version |-> Unwrap(data.first).value,
             schema |-> schema])
    ELSE Err("ParseError")

peek_attestation_version(data) ==
    IF data.der # "SEQUENCE" THEN Err("ParseError")
    ELSE LET read == read_i64(data.first)
             attestation_version == IF IsOk(read) THEN Unwrap(read.value) ELSE 0
         IN  IF data.trailing THEN Err("ParseError")
             ELSE Ok(attestation_version)

RECURSIVE FindFrom(_, _)
\* Iterator::find over the extensions from position i on
FindFrom(exts, i) ==
    IF i > Len(exts) THEN None
    ELSE IF exts[i].extn_id = KEY_ATTESTATION_OID THEN Some(exts[i])
    ELSE FindFrom(exts, i + 1)

RECURSIVE FindLastFrom(_, _)
\* the search of the faulty variant FindLast
FindLastFrom(exts, i) ==
    IF i < 1 THEN None
    ELSE IF exts[i].extn_id = KEY_ATTESTATION_OID THEN Some(exts[i])
    ELSE FindLastFrom(exts, i - 1)

\* faulty variant: the last extension with the OID is taken
FindLast(exts) == FindLastFrom(exts, Len(exts))

\* lines 54-57: .find(|e| e.extn_id == KEY_ATTESTATION_OID)
Find(exts) == FindFrom(exts, 1)

\* lines 61-98
Dispatch(version, extn_value) ==
    IF version \in {1, 2, 3, 4, 100, 200, 300}
    THEN LET parsed == ParseKeyDescription(SchemaOf(version), extn_value)
         IN  IF IsOk(parsed)
             THEN Ok([variant |-> VariantOf(version),
                      parsed |-> Unwrap(parsed.value)])
             ELSE Err("ParseError")
    ELSE [status |-> "Err", value |-> <<version>>,
          error |-> "UnsupportedAttestationVersion"]

extract_attestation(exts) ==
    IF ~IsSome(exts) THEN Err("ExtensionMissing")
    ELSE LET extension == Find(Unwrap(exts))
         IN  IF ~IsSome(extension) THEN Err("ExtensionMissing")
             ELSE LET version ==
                        peek_attestation_version(Unwrap(extension).extn_value)
                  IN  IF ~IsOk(version) THEN version
                      ELSE Dispatch(Unwrap(version.value),
                                    Unwrap(extension).extn_value)

InitExtract ==
    /\ chain = <<>>
    /\ pc = "fold"
    /\ idx = 0
    /\ prev_pbk = None
    /\ last_cert = None
    /\ cert_ids = <<>>
    /\ chain_result = NotCalled
    /\ root_result = NotCalled
    /\ extensions \in ExtensionInputs
    /\ ext_result = NotCalled
    /\ OthersIdle

ExtractAttestation ==
    /\ ext_result = NotCalled
    /\ ext_result' = extract_attestation(extensions)
    /\ UNCHANGED extensions
    /\ UNCHANGED chain_vars
    /\ UNCHANGED other_vars

NextExtract == ExtractAttestation

SpecExtract == InitExtract /\ [][NextExtract]_vars

-----------------------------------------------------------------------------
(* PublicKey::parse on its own *)

\* no chain is being validated
ChainIdle ==
    /\ chain = <<>>
    /\ pc = "fold"
    /\ idx = 0
    /\ prev_pbk = None
    /\ last_cert = None
    /\ cert_ids = <<>>
    /\ chain_result = NotCalled
    /\ root_result = NotCalled

ExtractIdle ==
    /\ extensions = None
    /\ ext_result = NotCalled

\* key algorithms: RSA, ECDSA, and one the validator does not know (DSA)
KeyAlgorithms == {RSA_PBK, ECDSA_PBK, "1.2.840.10040.4.1"}

\* parameters: absent, NULL, the two curves, and a curve the validator does
\* not know (secp521r1)
KeyParameters ==
    {None, Some([tag |-> "NULL", value |-> "NULL"])}
    \cup {Some([tag |-> "OBJECT IDENTIFIER", value |-> oid]) :
             oid \in {CURVE_P256, CURVE_P384, "1.3.132.0.35"}}

\* bit strings: an RSAPublicKey, a P-256 point, five bytes that are no point,
\* two P-384 coordinates, a coordinate part of odd length, and no byte at all
SubjectPublicKeys ==
    {RsaSpki.subject_public_key}
    \cup {[rsa |-> None, bytes |-> b] :
             b \in {<<0, 1, 0, 2, 1>>, <<0, 1, 1, 1, 1>>, <<0, 1, 2, 3, 3, 0, 1>>,
                    <<0, 1, 2, 3, 3, 0>>, <<>>}}

SubjectPublicKeyInfos ==
    {[algorithm |-> [algorithm |-> a, parameters |-> p], subject_public_key |-> k] :
        a \in KeyAlgorithms, p \in KeyParameters, k \in SubjectPublicKeys}

InitParseKey ==
    /\ ChainIdle
    /\ ExtractIdle
    /\ key_info \in {Some(i) : i \in SubjectPublicKeyInfos}
    /\ pbk_result = NotCalled
    /\ raw_chain = <<>>
    /\ calls = <<>>
    /\ InnerIdle

ParsePublicKey ==
    /\ pbk_result = NotCalled
    /\ pbk_result' = PublicKeyParse(Unwrap(key_info))
    /\ UNCHANGED <<key_info, raw_chain, calls, inner_vars>>
    /\ UNCHANGED chain_vars
    /\ UNCHANGED ext_vars

NextParseKey == ParsePublicKey

SpecParseKey == InitParseKey /\ [][NextParseKey]_vars

-----------------------------------------------------------------------------
(* The three entry points called again and again on one input *)

\* faulty variant: the ids of the previous call are still in the vector
VecKept(previous) == previous

\* line 300: let mut cert_ids = Vec::<CertificateId>::new()
VecNew(previous) == <<>>

RECURSIVE Fold(_, _, _, _, _)
\* try_fold from the certificate at position i on, lines 301-326; gives the
\* result of the call and the content of cert_ids at its end
Fold(c, i, pbk, cert, ids) ==
    IF i > Len(c) THEN [result |-> FoldResult(pbk, cert, ids), cert_ids |-> ids]
    ELSE LET r == FoldClosure(pbk, c[i])
         IN  IF ~IsOk(r) THEN [result |-> r, cert_ids |-> ids]
             ELSE Fold(c, i + 1, Unwrap(r.value).pbk, Unwrap(r.value).cert,
                       Push(ids, Unwrap(r.value).id))

\* one whole call of validate_certificate_chain, with what cert_ids held before
validate_certificate_chain(c, previous_ids) ==
    Fold(c, 1, None, None, VecNew(previous_ids))

RepeatCertificates == {TrustedRoot1, Intermediate256, KeyCert, KeyCertInvalid}

RepeatChains ==
    UNION {[1..n -> RepeatCertificates] :
             n \in {m \in 0..MaxChainLen : m <= CHAIN_MAX_LENGTH}}

RepeatExtensions ==
    {None,
     Some(<<Extension(KEY_ATTESTATION_OID,
                      KeyDescriptionValue(4, "KeyDescriptionV4"))>>),
     Some(<<Extension(KEY_ATTESTATION_OID,
                      KeyDescriptionValue(999, "KeyDescriptionKeyMint"))>>)}

Call(fn, result) == [fn |-> fn, result |-> result]

InitRepeat ==
    /\ chain \in RepeatChains
    /\ pc = "fold"
    /\ idx = 0
    /\ prev_pbk = None
    /\ last_cert = None
    /\ cert_ids = <<>>
    /\ chain_result = NotCalled
    /\ root_result = NotCalled
    /\ extensions \in RepeatExtensions
    /\ ext_result = NotCalled
    /\ OthersIdle

CallValidateCertificateChainRoot ==
    /\ Len(calls) < MaxCalls
    /\ root_result' = validate_certificate_chain_root(chain)
    /\ calls' = Append(calls, Call("validate_certificate_chain_root", root_result'))
    /\ UNCHANGED <<chain, pc, idx, prev_pbk, last_cert, cert_ids, chain_result>>
    /\ UNCHANGED <<ext_vars, pbk_vars, raw_chain, inner_vars>>

CallValidateCertificateChain ==
    /\ Len(calls) < MaxCalls
    /\ LET r == validate_certificate_chain(chain, cert_ids)
       IN  /\ chain_result' = r.result
           /\ cert_ids' = r.cert_ids
    /\ calls' = Append(calls, Call("validate_certificate_chain", chain_result'))
    /\ UNCHANGED <<chain, pc, idx, prev_pbk, last_cert, root_result>>
    /\ UNCHANGED <<ext_vars, pbk_vars, raw_chain, inner_vars>>

CallExtractAttestation ==
    /\ Len(calls) < MaxCalls
    /\ ext_result' = extract_attestation(extensions)
    /\ calls' = Append(calls, Call("extract_attestation", ext_result'))
    /\ UNCHANGED <<extensions, pbk_vars, raw_chain, inner_vars>>
    /\ UNCHANGED chain_vars

NextRepeat ==
    \/ CallValidateCertificateChainRoot
    \/ CallValidateCertificateChain
    \/ CallExtractAttestation

SpecRepeat == InitRepeat /\ [][NextRepeat]_vars

-----------------------------------------------------------------------------
(* decode_certificate_chain, and the validation of what it returns *)

\* the bytes of one certificate before they become a CertificateInput: the
\* certificate their first der_length bytes encode, and how many bytes there are
RawCertificate(content, der_length, length) ==
    [content |-> content, der_length |-> der_length, length |-> length]

\* a trusted root; bytes that are no certificate; a trusted root of exactly
\* CERT_MAX_LENGTH bytes followed by one more byte; a certificate of
\* CERT_MAX_LENGTH + 1 bytes
RawCertificates ==
    {RawCertificate(TrustedRoot1, 1380, 1380),
     RawCertificate(Garbage, 700, 700),
     RawCertificate(TrustedRoot2, CERT_MAX_LENGTH, CERT_MAX_LENGTH + 1),
     RawCertificate(KeyCert, CERT_MAX_LENGTH + 1, CERT_MAX_LENGTH + 1)}

RawChains == UNION {[1..n -> RawCertificates] : n \in 0..MaxRawLen}

\* BoundedVec::truncate_from on a vector: what is beyond the bound is dropped
truncate_from(v, bound) ==
    SubSeq(v, 1, IF Len(v) > bound THEN bound ELSE Len(v))

\* CertificateInput::truncate_from on the bytes of one certificate
truncate_bytes(bytes) ==
    [bytes EXCEPT !.length = IF @ > CERT_MAX_LENGTH THEN CERT_MAX_LENGTH ELSE @]

\* the CertificateInput as parse_single will see it: one certificate when the
\* bytes are exactly its DER encoding, no certificate when bytes are missing
\* or left over
CertificateInputOf(bytes) ==
    IF bytes.length = bytes.der_length THEN bytes.content
    ELSE [bytes.content EXCEPT !.der = "garbage"]

\* lines 363-373
decode_certificate_chain(c) ==
    truncate_from([i \in 1..Len(c) |-> CertificateInputOf(truncate_bytes(c[i]))],
                  CHAIN_MAX_LENGTH)

InitDecode ==
    /\ ChainIdle
    /\ ExtractIdle
    /\ key_info = None
    /\ pbk_result = NotCalled
    /\ raw_chain \in RawChains
    /\ calls = <<>>
    /\ InnerIdle

DecodeCertificateChain ==
    /\ calls = <<>>
    /\ chain' = decode_certificate_chain(raw_chain)
    /\ calls' = <<Call("decode_certificate_chain", Ok(chain'))>>
    /\ UNCHANGED <<pc, idx, prev_pbk, last_cert, cert_ids, chain_result, root_result>>
    /\ UNCHANGED <<ext_vars, pbk_vars, raw_chain, inner_vars>>

\* lines 451-454: the decoded chain is handed to the two validation calls
ValidateDecodedChain ==
    /\ Len(calls) = 1
    /\ root_result' = validate_certificate_chain_root(chain)
    /\ LET r == validate_certificate_chain(chain, cert_ids)
       IN  /\ chain_result' = r.result
           /\ cert_ids' = r.cert_ids
    /\ calls' = Append(calls, Call("validate_certificate_chain", chain_result'))
    /\ UNCHANGED <<chain, pc, idx, prev_pbk, last_cert>>
    /\ UNCHANGED <<ext_vars, pbk_vars, raw_chain, inner_vars>>

NextDecode ==
    \/ DecodeCertificateChain
    \/ ValidateDecodedChain

SpecDecode == InitDecode /\ [][NextDecode]_vars

-----------------------------------------------------------------------------
(* validate_rsa on its own *)

Payloads == UNION {[1..n -> Byte] : n \in 0..MaxPayloadLen}

\* every signature value below the modulus 77, as a bit string
RsaSignatures == {[bytes |-> ToBytesBE(n), ecdsa |-> None] : n \in 0..76}

\* the key of the roots, and the same modulus with the exponent 1
RsaKeys == {RSAPbk(7, 77), RSAPbk(1, 77)}

RsaArgs ==
    {[fn |-> "validate_rsa", payload |-> p, signature |-> sig, pbk |-> k] :
        p \in Payloads, sig \in RsaSignatures, k \in RsaKeys}

\* only the inner call of this specification is going to be made
InitInner(args) ==
    /\ ChainIdle
    /\ ExtractIdle
    /\ key_info = None
    /\ pbk_result = NotCalled
    /\ raw_chain = <<>>
    /\ calls = <<>>
    /\ inner_args \in {Some(a) : a \in args}
    /\ inner_result = NotCalled

InitRsa == InitInner(RsaArgs)

ValidateRsa ==
    /\ inner_result = NotCalled
    /\ Unwrap(inner_args).fn = "validate_rsa"
    /\ inner_result' = validate_rsa(Unwrap(inner_args).payload,
                                    Unwrap(inner_args).signature,
                                    Unwrap(inner_args).pbk)
    /\ UNCHANGED <<inner_args, key_info, pbk_result, raw_chain, calls>>
    /\ UNCHANGED chain_vars
    /\ UNCHANGED ext_vars

NextRsa == ValidateRsa

SpecRsa == InitRsa /\ [][NextRsa]_vars

-----------------------------------------------------------------------------
(* validate_certificate_chain on chains that differ in their names only *)

\* the distinguished names of issuers and subjects
Names == {GoogleName, <<2>>}

\* what a certificate certifies and who signed it: the self-signed RSA root,
\* a P-256 intermediate signed by the root key, a key certificate signed by
\* the key of the intermediate
CertificateKinds == {"root", "intermediate", "key"}

\* the certificate of a kind, issued under the given names: the signature is
\* made over the tbsCertificate that carries these names
Issued(kind, issuer, subject) ==
    CASE kind = "root" ->
            RsaIssued(NamedTbs(<<1>>, issuer, subject, RSA_ALGORITHM, RsaSpki, None))
      [] kind = "intermediate" ->
            RsaIssued(NamedTbs(<<3>>, issuer, subject, RSA_ALGORITHM, P256SpkiA,
                               None))
      [] kind = "key" ->
            LET tbs == NamedTbs(<<1>>, issuer, subject,
                                ECDSA_WITH_SHA256_ALGORITHM, P256SpkiB, None)
            IN  EcdsaIssued(tbs, P256SpkiA, Sha256(EncodeTbs(tbs)))

NamedChain(kinds, issuers, subjects) ==
    [i \in 1..Len(kinds) |-> Issued(kinds[i], issuers[i], subjects[i])]

NamedChainArgs ==
    {[fn |-> "validate_certificate_chain", kinds |-> k, issuers |-> i,
      subjects |-> s] :
        <<k, i, s>> \in UNION {[1..n -> CertificateKinds] \X [1..n -> Names]
                                  \X [1..n -> Names] :
                                 n \in {m \in 0..MaxChainLen : m <= CHAIN_MAX_LENGTH}}}

InitNames ==
    /\ inner_args \in {Some(a) : a \in NamedChainArgs}
    /\ inner_result = NotCalled
    /\ chain = NamedChain(Unwrap(inner_args).kinds, Unwrap(inner_args).issuers,
                          Unwrap(inner_args).subjects)
    /\ pc = "fold"
    /\ idx = 0
    /\ prev_pbk = None
    /\ last_cert = None
    /\ cert_ids = <<>>
    /\ chain_result = NotCalled
    /\ root_result = NotCalled
    /\ ExtractIdle
    /\ key_info = None
    /\ pbk_result = NotCalled
    /\ raw_chain = <<>>
    /\ calls = <<>>

NextNames ==
    \/ FoldStep
    \/ FoldEnd

SpecNames == InitNames /\ [][NextNames]_vars

-----------------------------------------------------------------------------
(* validate_ecdsa on its own *)

\* the two digests D of validate_ecdsa::<D>
Digests == {"Sha256", "Sha384"}

\* a P-256 and a P-384 verifier key
EcdsaKeys ==
    {Unwrap(PublicKeyParse(P256SpkiA).value), Unwrap(PublicKeyParse(P384Spki).value)}

\* what a signature can have been made over: two or three bytes
Prehashes == [1..2 -> Byte] \cup [1..3 -> Byte]

\* the signatures of the two keys over every prehash, and bytes that are no
\* DER signature
EcdsaSignatures ==
    {EcdsaSign(k.point, h) : k \in EcdsaKeys, h \in Prehashes}
    \cup {[bytes |-> <<0>>, ecdsa |-> None]}

EcdsaArgs ==
    {[fn |-> "validate_ecdsa", D |-> d, payload |-> p, signature |-> sig,
      curve |-> k] :
        d \in Digests, p \in Payloads, sig \in EcdsaSignatures, k \in EcdsaKeys}

InitEcdsa == InitInner(EcdsaArgs)

ValidateEcdsa ==
    /\ inner_result = NotCalled
    /\ Unwrap(inner_args).fn = "validate_ecdsa"
    /\ inner_result' = validate_ecdsa(Unwrap(inner_args).D,
                                      Unwrap(inner_args).payload,
                                      Unwrap(inner_args).signature,
                                      Unwrap(inner_args).curve)
    /\ UNCHANGED <<inner_args, key_info, pbk_result, raw_chain, calls>>
    /\ UNCHANGED chain_vars
    /\ UNCHANGED ext_vars

NextEcdsa == ValidateEcdsa

SpecEcdsa == InitEcdsa /\ [][NextEcdsa]_vars

-----------------------------------------------------------------------------
(* peek_attestation_version on its own *)

\* the integers an extension value starts with
PeekIntegers == {0, 1, 4, 100, 300, 999, WideInteger}

\* what can stand first in the outer SEQUENCE: nothing, an INTEGER, or an
\* element of another type
FirstElements ==
    {None, Some([tag |-> "OCTET STRING", value |-> 0])}
    \cup {Integer(n) : n \in PeekIntegers}

\* what the elements behind the first conform to
RestSchemas ==
    {"none", "KeyDescriptionV1", "KeyDescriptionV2", "KeyDescriptionV3",
     "KeyDescriptionV4", "KeyDescriptionKeyMint"}

PeekData ==
    {ExtnValue(der, first, rest, trailing) :
        der \in {"SEQUENCE", "OCTET STRING"}, first \in FirstElements,
        rest \in RestSchemas, trailing \in BOOLEAN}

PeekArgs == {[fn |-> "peek_attestation_version", data |-> d] : d \in PeekData}

InitPeek == InitInner(PeekArgs)

PeekAttestationVersion ==
    /\ inner_result = NotCalled
    /\ Unwrap(inner_args).fn = "peek_attestation_version"
    /\ inner_result' = peek_attestation_version(Unwrap(inner_args).data)
    /\ UNCHANGED <<inner_args, key_info, pbk_result, raw_chain, calls>>
    /\ UNCHANGED chain_vars
    /\ UNCHANGED ext_vars

NextPeek == PeekAttestationVersion

SpecPeek == InitPeek /\ [][NextPeek]_vars

-----------------------------------------------------------------------------
(* What the properties speak of *)

Parses(c) == c.der = "Certificate"

\* the public key a certificate certifies
KeyOf(c) == PublicKeyParse(c.tbs_certificate.subject_public_key_info)

HasKey(c) == Parses(c) /\ IsOk(KeyOf(c))

SigOid(c) == c.signature_algorithm.algorithm

\* the digest the signature algorithm identifier names
DigestOfOid(oid, data) ==
    IF oid = ECDSA_WITH_SHA384_ALGORITHM THEN Sha384(data) ELSE Sha256(data)

\* ECDSA turns a digest into a scalar of the curve: the leftmost bytes of a
\* longer digest, a shorter digest padded with zero bytes on the left
Scalar(curve, digest) ==
    IF curve = "CurveP384"
    THEN IF Len(digest) < 3 THEN <<0>> \o digest ELSE digest
    ELSE SubSeq(digest, 1, 2)

\* the signature of c over its tbsCertificate verifies under `key`, by the
\* algorithm the signature OID of c names
OidVerifies(c, key) ==
    LET payload == EncodeTbs(c.tbs_certificate)
        sig == c.signature_value
    IN  CASE SigOid(c) = RSA_ALGORITHM ->
                /\ key.kind = "RSA"
                /\ key.modulus > 0
                /\ LET computed == ToBytesBE(ModPow(FromBytesBE(sig.bytes),
                                                    key.exponent, key.modulus))
                       hashed == Sha256(payload)
                   IN  /\ Len(computed) >= Len(hashed)
                       /\ \A k \in 1..Len(hashed) :
                            computed[Len(computed) - Len(hashed) + k] = hashed[k]
          [] SigOid(c) \in {ECDSA_WITH_SHA256_ALGORITHM,
                            ECDSA_WITH_SHA384_ALGORITHM} ->
                /\ key.kind = "ECDSA"
                /\ IsSome(sig.ecdsa)
                /\ Unwrap(sig.ecdsa).point = key.point
                /\ Unwrap(sig.ecdsa).prehash =
                      Scalar(key.curve, DigestOfOid(SigOid(c), payload))
          [] OTHER -> FALSE

\* the key kind the signature OID of c asks for
KindOfOid(oid) ==
    CASE oid = RSA_ALGORITHM -> "RSA"
      [] oid \in {ECDSA_WITH_SHA256_ALGORITHM, ECDSA_WITH_SHA384_ALGORITHM} -> "ECDSA"
      [] OTHER -> "none"

Done == pc = "done"

Accepted == Done /\ IsOk(chain_result)

RootCalled == root_result # NotCalled

-----------------------------------------------------------------------------
(* C1 *)

\* C1: validate_certificate_chain_root succeeds exactly on the non-empty chains
\* whose first certificate is byte-identical to a trusted root, and answers
\* UntrustedRoot for every non-empty chain whose first certificate differs from
\* every trusted root, whatever follows it.
C1_RootIffTrusted ==
    RootCalled =>
        /\ IsOk(root_result) <=>
              (chain # <<>> /\ \E r \in TRUSTED_ROOT_CERTS : chain[1] = r)
        /\ (chain # <<>> /\ \A r \in TRUSTED_ROOT_CERTS : chain[1] # r)
              => root_result = Err("UntrustedRoot")

\* a root that differs from a trusted root in its last signature byte only,
\* followed by other certificates, is answered with UntrustedRoot
C1_Witness ==
    /\ RootCalled
    /\ Len(chain) >= 2
    /\ chain[1] # TrustedRoot1
    /\ chain[1].tbs_certificate = TrustedRoot1.tbs_certificate
    /\ root_result = Err("UntrustedRoot")

-----------------------------------------------------------------------------
(* C2 *)

\* C2: in every chain of length >= 2 that validate_certificate_chain accepts,
\* the signature of each c[i], i >= 1, verifies over the tbsCertificate of c[i]
\* under the key of c[i-1], by the algorithm the signature OID of c[i] names.
C2_EachSignedByPredecessor ==
    (Accepted /\ Len(chain) >= 2) =>
        \A i \in 2..Len(chain) :
            /\ HasKey(chain[i - 1])
            /\ OidVerifies(chain[i], Unwrap(KeyOf(chain[i - 1]).value))

-----------------------------------------------------------------------------
(* C3 *)

\* c[i] is signed by the key it certifies and not by the key of c[i-1]
SelfSignedAt(i) ==
    /\ HasKey(chain[i])
    /\ OidVerifies(chain[i], Unwrap(KeyOf(chain[i]).value))
    /\ ~(/\ HasKey(chain[i - 1])
         /\ OidVerifies(chain[i], Unwrap(KeyOf(chain[i - 1]).value)))

\* C3: from the second certificate on, the key the fold carries as verifier is
\* the key of the preceding certificate (never None, so never replaced by the
\* certificate's own key), and a chain that holds at an index i >= 1 a
\* certificate signed by its own key and not by the key of c[i-1] is not
\* accepted.
C3_NoInteriorSelfSigned ==
    /\ (pc = "fold" /\ idx >= 1) =>
          /\ HasKey(chain[idx])
          /\ prev_pbk = Some(Unwrap(KeyOf(chain[idx]).value))
    /\ (Done /\ \E i \in 2..Len(chain) : SelfSignedAt(i)) => ~IsOk(chain_result)

\* under a trusted root, the fold reaches a self-signed certificate and refuses it
C3_Witness ==
    /\ Done
    /\ Len(chain) >= 2
    /\ chain[1] \in TRUSTED_ROOT_CERTS
    /\ \E i \in 2..Len(chain) : SelfSignedAt(i) /\ idx = i - 1
    /\ chain_result = Err("InvalidSignature")

-----------------------------------------------------------------------------
(* C4 *)

\* C4: every chain validate_certificate_chain accepts starts with a certificate
\* that is byte-identical to one of the TRUSTED_ROOT_CERTS.
C4_AcceptedStartsAtTrustedRoot ==
    Accepted => \E r \in TRUSTED_ROOT_CERTS : chain[1] = r

-----------------------------------------------------------------------------
(* C5 *)

\* C5 as stated: validate_certificate_chain verifies no signature of c[0], so a
\* first certificate that parses and carries a supported key is never the one
\* the chain is refused at.
C5_RootSignatureNotVerified ==
    (Done /\ chain # <<>> /\ HasKey(chain[1])) => ~(~IsOk(chain_result) /\ idx = 0)

\* the verdict of the signature verifier on c[0] under the key of c[0] itself
SelfVerdict(c) ==
    validate(Unwrap(parse_cert(c).value), Unwrap(parse_cert_payload(c).value),
             Unwrap(KeyOf(c).value))

\* C5 amended: the signature of c[0] is verified, under the public key of c[0]
\* itself: the fold gets past c[0] only if that verification succeeds, and when
\* it does not, its outcome is the outcome of the call.
C5_RootVerifiedUnderOwnKey ==
    (chain # <<>> /\ HasKey(chain[1])) =>
        /\ idx >= 1 => IsOk(SelfVerdict(chain[1]))
        /\ Done /\ idx = 0 => chain_result = SelfVerdict(chain[1])
        /\ Done /\ IsOk(SelfVerdict(chain[1])) => idx >= 1

\* a root whose signature was tampered with is refused with InvalidSignature
C5_Witness ==
    /\ Done
    /\ chain # <<>>
    /\ chain[1] = UntrustedRoot
    /\ idx = 0
    /\ chain_result = Err("InvalidSignature")

-----------------------------------------------------------------------------
(* C6 *)

\* C6: the id list of an accepted chain has one entry per certificate, and its
\* k-th entry is (DER of the issuer, serial number bytes) of the k-th
\* certificate of the input.
C6_IdsInInputOrder ==
    Accepted =>
        LET ids == Unwrap(chain_result.value).cert_ids
        IN  /\ Len(ids) = Len(chain)
            /\ \A k \in 1..Len(chain) :
                  ids[k] = <<write_single(chain[k].tbs_certificate.issuer),
                             chain[k].tbs_certificate.serial_number>>

\* an accepted chain of three certificates with three different ids
C6_Witness ==
    /\ Accepted
    /\ Len(chain) = 3
    /\ Cardinality({Unwrap(chain_result.value).cert_ids[k] : k \in 1..3}) = 3

-----------------------------------------------------------------------------
(* C7 *)

\* C7: on the empty chain validate_certificate_chain_root and
\* validate_certificate_chain both fail with ChainTooShort.
C7_EmptyChainTooShort ==
    chain = <<>> =>
        /\ RootCalled => root_result = Err("ChainTooShort")
        /\ Done => chain_result = Err("ChainTooShort")

C7_Witness ==
    /\ chain = <<>>
    /\ RootCalled
    /\ Done
    /\ chain_result.status = "Err"

-----------------------------------------------------------------------------
(* C8 *)

\* C8: a chain of the one certificate that equals a trusted root and is validly
\* self-signed is accepted by both calls, with an id list of length 1.
C8_SingleTrustedRoot ==
    (/\ Len(chain) = 1
     /\ chain[1] \in TRUSTED_ROOT_CERTS
     /\ HasKey(chain[1])
     /\ OidVerifies(chain[1], Unwrap(KeyOf(chain[1]).value))) =>
        /\ RootCalled => IsOk(root_result)
        /\ Done => /\ IsOk(chain_result)
                   /\ Len(Unwrap(chain_result.value).cert_ids) = 1

C8_Witness ==
    /\ Len(chain) = 1
    /\ chain[1] \in TRUSTED_ROOT_CERTS
    /\ OidVerifies(chain[1], Unwrap(KeyOf(chain[1]).value))
    /\ IsOk(root_result)
    /\ Accepted

-----------------------------------------------------------------------------
(* C9 *)

\* the key validate_certificate_chain verifies c[i] with
VerifierOf(i) ==
    IF i = 1 THEN Unwrap(KeyOf(chain[1]).value)
    ELSE Unwrap(KeyOf(chain[i - 1]).value)

\* c[i] parses, has a supported key, equal and supported signature OIDs, a
\* verifier key of the kind the OID asks for and a well-encoded signature,
\* which does not verify under the verifier key
BadSignatureAt(i) ==
    /\ HasKey(chain[i])
    /\ SigOid(chain[i]) = chain[i].tbs_certificate.signature.algorithm
    /\ KindOfOid(SigOid(chain[i])) = VerifierOf(i).kind
    /\ VerifierOf(i).kind = "ECDSA" =>
          from_der(chain[i].signature_value,
                   IF VerifierOf(i).curve = "CurveP256" THEN 2 ELSE 3)
    /\ ~OidVerifies(chain[i], VerifierOf(i))

\* C9: when every certificate before index i passes and the well-formed c[i]
\* carries a signature that does not verify under the verifier key,
\* validate_certificate_chain fails with InvalidSignature.
C9_BadSignatureIsInvalidSignature ==
    \A i \in 1..Len(chain) :
        (Done /\ idx >= i - 1 /\ BadSignatureAt(i)) =>
            chain_result = Err("InvalidSignature")

-----------------------------------------------------------------------------
(* C10 *)

HasAttestation(e) == e.extn_id = KEY_ATTESTATION_OID

\* C10: extract_attestation answers ExtensionMissing when there are no
\* extensions and when none has the attestation OID; otherwise its result is the
\* one it gives for the first extension with that OID alone, whatever follows.
C10_FirstAttestationExtension ==
    ext_result # NotCalled =>
        IF ~IsSome(extensions)
           \/ \A k \in 1..Len(Unwrap(extensions)) :
                 ~HasAttestation(Unwrap(extensions)[k])
        THEN ext_result = Err("ExtensionMissing")
        ELSE LET exts == Unwrap(extensions)
                 first == CHOOSE k \in 1..Len(exts) :
                            /\ HasAttestation(exts[k])
                            /\ \A j \in 1..(k - 1) : ~HasAttestation(exts[j])
             IN  /\ ext_result # Err("ExtensionMissing")
                 /\ ext_result = extract_attestation(Some(<<exts[first]>>))

\* two extensions carry the attestation OID with different values, after an
\* extension of another kind: the first of the two decides
C10_Witness ==
    /\ ext_result # NotCalled
    /\ IsSome(extensions)
    /\ Len(Unwrap(extensions)) = 3
    /\ ~HasAttestation(Unwrap(extensions)[1])
    /\ HasAttestation(Unwrap(extensions)[2])
    /\ HasAttestation(Unwrap(extensions)[3])
    /\ extract_attestation(Some(<<Unwrap(extensions)[2]>>))
          # extract_attestation(Some(<<Unwrap(extensions)[3]>>))
    /\ ext_result = extract_attestation(Some(<<Unwrap(extensions)[2]>>))

-----------------------------------------------------------------------------
(* C11 *)

\* some extension carries the attestation OID
Attested ==
    /\ IsSome(extensions)
    /\ \E k \in 1..Len(Unwrap(extensions)) : HasAttestation(Unwrap(extensions)[k])

\* the value of the first extension with the attestation OID
AttestationValue ==
    LET exts == Unwrap(extensions)
        first == CHOOSE k \in 1..Len(exts) :
                   /\ HasAttestation(exts[k])
                   /\ \A j \in 1..(k - 1) : ~HasAttestation(exts[j])
    IN  exts[first].extn_value

SupportedVersions == {1, 2, 3, 4, 100, 200, 300}

\* the version a variant tag names
VersionOfTag(variant) ==
    CASE variant = "V1" -> 1
      [] variant = "V2" -> 2
      [] variant = "V3" -> 3
      [] variant = "V4" -> 4
      [] variant = "V100" -> 100
      [] variant = "V200" -> 200
      [] variant = "V300" -> 300
      [] OTHER -> 0

\* C11: whenever extract_attestation succeeds, the peek of the attestation
\* extension value gave an integer of {1, 2, 3, 4, 100, 200, 300}, the variant
\* tag of the result names that integer, and the attestation_version of the
\* parsed record is the version the tag names.
C11_TagIsPeekedVersion ==
    IsOk(ext_result) =>
        /\ Attested
        /\ LET peeked == peek_attestation_version(AttestationValue)
               description == Unwrap(ext_result.value)
           IN  /\ IsOk(peeked)
               /\ Unwrap(peeked.value) \in SupportedVersions
               /\ VersionOfTag(description.variant) = Unwrap(peeked.value)
               /\ description.parsed.attestation_version
                     = VersionOfTag(description.variant)

\* a version 200 attestation comes back as V200 carrying 200
C11_Witness ==
    /\ IsOk(ext_result)
    /\ Unwrap(ext_result.value).variant = "V200"
    /\ Unwrap(ext_result.value).parsed.attestation_version = 200

-----------------------------------------------------------------------------
(* C12 *)

UnsupportedAttestationVersion(n) ==
    [status |-> "Err", value |-> <<n>>, error |-> "UnsupportedAttestationVersion"]

\* C12: when the value of the attestation extension is one SEQUENCE whose first
\* element is an INTEGER n outside {1, 2, 3, 4, 100, 200, 300},
\* extract_attestation fails with UnsupportedAttestationVersion(n), whatever
\* the other elements of the SEQUENCE are.
C12_UnknownVersionReported ==
    (ext_result # NotCalled /\ Attested) =>
        LET v == AttestationValue
        IN  (/\ v.der = "SEQUENCE"
             /\ ~v.trailing
             /\ IsSome(v.first)
             /\ Unwrap(v.first).tag = "INTEGER"
             /\ Unwrap(v.first).value \notin SupportedVersions) =>
                ext_result = UnsupportedAttestationVersion(Unwrap(v.first).value)

-----------------------------------------------------------------------------
(* C13 *)

\* the fold has come to c[i]: every certificate before it passed
ReachedAt(i) == Done /\ (idx >= i \/ (idx = i - 1 /\ ~IsOk(chain_result)))

InnerOid(c) == c.tbs_certificate.signature.algorithm

\* C13: a certificate the fold comes to, which parses and has a supported key
\* and whose outer signatureAlgorithm differs from tbsCertificate.signature, is
\* refused with SignatureMismatch, whatever the two identifiers and the
\* signature are; every certificate of an accepted chain has equal identifiers.
C13_MismatchRefusedFirst ==
    /\ \A i \in 1..Len(chain) :
          (ReachedAt(i) /\ HasKey(chain[i]) /\ SigOid(chain[i]) # InnerOid(chain[i]))
              => (idx = i - 1 /\ chain_result = Err("SignatureMismatch"))
    /\ Accepted => \A i \in 1..Len(chain) : SigOid(chain[i]) = InnerOid(chain[i])

\* a validly signed certificate with differing identifiers, and one whose outer
\* identifier is unknown, are both refused with SignatureMismatch
C13_Witness ==
    /\ Done
    /\ Len(chain) = 3
    /\ idx = 2
    /\ chain_result = Err("SignatureMismatch")
    /\ \/ /\ SigOid(chain[3]) = ECDSA_WITH_SHA384_ALGORITHM
          /\ OidVerifies([chain[3] EXCEPT !.signature_algorithm =
                                            chain[3].tbs_certificate.signature],
                         Unwrap(KeyOf(chain[2]).value))
       \/ KindOfOid(SigOid(chain[3])) = "none"

-----------------------------------------------------------------------------
(* C14 *)

\* C14: for a certificate the fold comes to, which parses, has a supported key
\* and equal algorithm identifiers: an identifier other than the three known
\* ones gives UnsupportedSignatureAlgorithm, a known identifier with a verifier
\* key of the other kind gives UnsupportedPublicKeyAlgorithm, and a certificate
\* that passes was verified with a key of the kind its identifier asks for.
C14_DispatchByOidAndKind ==
    \A i \in 1..Len(chain) :
        (ReachedAt(i) /\ HasKey(chain[i]) /\ SigOid(chain[i]) = InnerOid(chain[i])) =>
            LET kind == KindOfOid(SigOid(chain[i]))
            IN  /\ kind = "none" =>
                      (idx = i - 1 /\ chain_result = Err("UnsupportedSignatureAlgorithm"))
                /\ (kind # "none" /\ kind # VerifierOf(i).kind) =>
                      (idx = i - 1 /\ chain_result = Err("UnsupportedPublicKeyAlgorithm"))
                /\ idx >= i => kind = VerifierOf(i).kind

\* all three outcomes of the dispatch: an RSA identifier under an ECDSA key, an
\* ECDSA identifier under an RSA key, an unknown identifier
C14_Witness ==
    /\ Done
    /\ Len(chain) >= 2
    /\ idx = Len(chain) - 1
    /\ HasKey(chain[idx + 1])
    /\ SigOid(chain[idx + 1]) = InnerOid(chain[idx + 1])
    /\ \/ /\ KindOfOid(SigOid(chain[idx + 1])) = "RSA"
          /\ VerifierOf(idx + 1).kind = "ECDSA"
          /\ chain_result = Err("UnsupportedPublicKeyAlgorithm")
       \/ /\ KindOfOid(SigOid(chain[idx + 1])) = "none"
          /\ chain_result = Err("UnsupportedSignatureAlgorithm")

-----------------------------------------------------------------------------
(* C15 *)

KeyAlgorithm == Unwrap(key_info).algorithm.algorithm

KeyParameter == Unwrap(key_info).algorithm.parameters

IsCurve(oid) ==
    /\ IsSome(KeyParameter)
    /\ Unwrap(KeyParameter).tag = "OBJECT IDENTIFIER"
    /\ Unwrap(KeyParameter).value = oid

\* C15: PublicKey::parse answers UnsupportedPublicKeyAlgorithm for a key
\* algorithm other than RSA and ECDSA, MissingECDSAAlgorithmTyp for an ECDSA key
\* without parameters, UnsupportedSignatureAlgorithm for an ECDSA key on a curve
\* other than P-256 and P-384, ParseP256PublicKey for a P-256 bit string that is
\* no SEC1 point; it returns a key only for RSA, ECDSA on P-256 and ECDSA on
\* P-384, and then a key of that kind and curve.
C15_KeyExtractorErrors ==
    pbk_result # NotCalled =>
        /\ KeyAlgorithm \notin {RSA_PBK, ECDSA_PBK}
              => pbk_result = Err("UnsupportedPublicKeyAlgorithm")
        /\ (KeyAlgorithm = ECDSA_PBK /\ ~IsSome(KeyParameter))
              => pbk_result = Err("MissingECDSAAlgorithmTyp")
        /\ (/\ KeyAlgorithm = ECDSA_PBK
            /\ IsSome(KeyParameter)
            /\ Unwrap(KeyParameter).tag = "OBJECT IDENTIFIER"
            /\ Unwrap(KeyParameter).value \notin {CURVE_P256, CURVE_P384})
              => pbk_result = Err("UnsupportedSignatureAlgorithm")
        /\ (/\ KeyAlgorithm = ECDSA_PBK
            /\ IsCurve(CURVE_P256)
            /\ Unwrap(key_info).subject_public_key.bytes \notin P256Points)
              => pbk_result = Err("ParseP256PublicKey")
        /\ IsOk(pbk_result) =>
              LET key == Unwrap(pbk_result.value)
              IN  \/ KeyAlgorithm = RSA_PBK /\ key.kind = "RSA"
                  \/ /\ KeyAlgorithm = ECDSA_PBK
                     /\ IsCurve(CURVE_P256)
                     /\ key.kind = "ECDSA"
                     /\ key.curve = "CurveP256"
                  \/ /\ KeyAlgorithm = ECDSA_PBK
                     /\ IsCurve(CURVE_P384)
                     /\ key.kind = "ECDSA"
                     /\ key.curve = "CurveP384"

\* an ECDSA key on an unknown curve is answered with
\* UnsupportedSignatureAlgorithm
C15_Witness ==
    /\ KeyAlgorithm = ECDSA_PBK
    /\ IsSome(KeyParameter)
    /\ Unwrap(KeyParameter).tag = "OBJECT IDENTIFIER"
    /\ Unwrap(KeyParameter).value \notin {CURVE_P256, CURVE_P384}
    /\ pbk_result = Err("UnsupportedSignatureAlgorithm")

-----------------------------------------------------------------------------
(* C16 *)

\* what the steps of the fold make of c[i] when every certificate before it
\* passed: the first error of parsing, key extraction and signature verification
CertificateVerdict(i) ==
    IF ~Parses(chain[i]) THEN Err("ParseError")
    ELSE IF ~IsOk(KeyOf(chain[i])) THEN KeyOf(chain[i])
    ELSE validate(Unwrap(parse_cert(chain[i]).value),
                  Unwrap(parse_cert_payload(chain[i]).value), VerifierOf(i))

RECURSIVE FirstFailingFrom(_)
\* the index of the first certificate from i on that does not pass, 0 if none
FirstFailingFrom(i) ==
    IF i > Len(chain) THEN 0
    ELSE IF ~IsOk(CertificateVerdict(i)) THEN i
    ELSE FirstFailingFrom(i + 1)

\* C16: when c[i] is the first certificate that does not pass, the fold never
\* consumes a certificate beyond the i - 1 before it, and the call ends with
\* exactly the outcome of c[i], without ids, tbsCertificate or key.
C16_FirstErrorIsFatal ==
    LET first == FirstFailingFrom(1)
    IN  first # 0 =>
            /\ idx <= first - 1
            /\ Len(cert_ids) <= first - 1
            /\ Done => /\ idx = first - 1
                       /\ chain_result = CertificateVerdict(first)
                       /\ chain_result.value = <<>>

\* the second of three certificates fails a step other than parsing, the third
\* is no certificate at all: the error of the second is returned
C16_Witness ==
    /\ Done
    /\ Len(chain) = 3
    /\ FirstFailingFrom(1) = 2
    /\ ~Parses(chain[3])
    /\ chain_result.status = "Err"
    /\ chain_result.error # "ParseError"

-----------------------------------------------------------------------------
(* C17 *)

-----------------------------------------------------------------------------
(* C18 *)

\* the undecoded input has more than CHAIN_MAX_LENGTH certificates or a
\* certificate of more than CERT_MAX_LENGTH bytes
Oversized ==
    \/ Len(raw_chain) > CHAIN_MAX_LENGTH
    \/ \E i \in 1..Len(raw_chain) : raw_chain[i].length > CERT_MAX_LENGTH

\* C18: no validation call gets a chain of more than CHAIN_MAX_LENGTH
\* certificates, and an input that exceeds the bound on the number of
\* certificates or on the bytes of a certificate is refused: it is never
\* shortened and then handed to a validation call.
C18_OversizedRejected ==
    /\ chain_result # NotCalled => Len(chain) <= CHAIN_MAX_LENGTH
    /\ Oversized => (chain_result = NotCalled /\ root_result = NotCalled)

-----------------------------------------------------------------------------
(* C19 *)

\* C19: an accepted chain comes back with the tbsCertificate of its last
\* certificate and the public key that certificate certifies.
C19_LeafReturned ==
    Accepted =>
        LET leaf == chain[Len(chain)]
            returned == Unwrap(chain_result.value)
        IN  /\ returned.tbs_certificate = leaf.tbs_certificate
            /\ returned.pbk = Unwrap(KeyOf(leaf).value)

\* an accepted chain of three certificates with three different tbsCertificates
\* and keys: those of the third come back
C19_Witness ==
    /\ Accepted
    /\ Len(chain) = 3
    /\ \A k \in 1..2 :
          /\ chain[k].tbs_certificate # chain[3].tbs_certificate
          /\ KeyOf(chain[k]) # KeyOf(chain[3])
    /\ Unwrap(chain_result.value).tbs_certificate = chain[3].tbs_certificate
    /\ Unwrap(chain_result.value).pbk.kind = "ECDSA"

-----------------------------------------------------------------------------
(* C20 *)

\* C20: validate_certificate_chain never answers MissingPublicKey: the fold
\* carries a key exactly when it carries a certificate, and the empty
\* accumulator is answered with ChainTooShort.
C20_MissingPublicKeyUnreachable ==
    /\ chain_result.error # "MissingPublicKey"
    /\ IsSome(prev_pbk) <=> IsSome(last_cert)
    /\ (Done /\ idx = Len(chain) /\ ~IsSome(last_cert))
          => chain_result = Err("ChainTooShort")

\* the fold is through a chain of several certificates and carries both
C20_Witness ==
    /\ Done
    /\ Len(chain) >= 2
    /\ idx = Len(chain)
    /\ IsSome(prev_pbk)
    /\ IsSome(last_cert)
    /\ chain_result.status = "Ok"

-----------------------------------------------------------------------------
(* C21 *)

\* the big-endian bytes of s^e mod n for the arguments of the call
RsaComputed ==
    ToBytesBE(ModPow(FromBytesBE(Unwrap(inner_args).signature.bytes),
                     Unwrap(inner_args).pbk.exponent,
                     Unwrap(inner_args).pbk.modulus))

\* s^e mod n has as many bytes as the digest at least, and its last bytes are
\* the digest of the payload
TrailingBytesAreDigest ==
    LET hashed == Sha256(Unwrap(inner_args).payload)
    IN  /\ Len(RsaComputed) >= Len(hashed)
        /\ \A k \in 1..Len(hashed) :
              RsaComputed[Len(RsaComputed) - Len(hashed) + k] = hashed[k]

\* C21: validate_rsa accepts exactly when the last bytes of the big-endian
\* encoding of s^e mod n, as many as SHA256(payload) has, equal SHA256(payload),
\* whatever the bytes before them are; when they differ the answer is
\* InvalidSignature.
C21_TrailingDigestDecides ==
    inner_result # NotCalled =>
        /\ IsOk(inner_result) <=> TrailingBytesAreDigest
        /\ (/\ Len(RsaComputed) >= Len(Sha256(Unwrap(inner_args).payload))
            /\ ~TrailingBytesAreDigest)
              => inner_result = Err("InvalidSignature")

\* a signature is accepted although two bytes stand before the digest, which
\* are not the 01 the signer puts there
C21_Witness ==
    /\ IsOk(inner_result)
    /\ Unwrap(inner_args).fn = "validate_rsa"
    /\ Len(RsaComputed) = Len(Sha256(Unwrap(inner_args).payload)) + 2

-----------------------------------------------------------------------------
(* C22 *)

\* validate_ecdsa was called with a key on `curve` and a signature that decodes
\* and was made with that key
EcdsaCalledOn(curve) ==
    /\ inner_result # NotCalled
    /\ Unwrap(inner_args).fn = "validate_ecdsa"
    /\ Unwrap(inner_args).curve.curve = curve
    /\ IsSome(Unwrap(inner_args).signature.ecdsa)
    /\ Unwrap(Unwrap(inner_args).signature.ecdsa).point = Unwrap(inner_args).curve.point

\* what the signature of the call was made over
SignedPrehash == Unwrap(Unwrap(inner_args).signature.ecdsa).prehash

\* C22: with a P-384 key the signature is verified against a prehash that has
\* the length of a P-384 field element: for SHA-256 the digest of the payload
\* behind as many zero bytes as it is shorter, for SHA-384 the digest of the
\* payload unchanged. The call accepts exactly the signatures made over that
\* prehash and answers InvalidSignature for the others.
C22_P384Prehash ==
    EcdsaCalledOn("CurveP384") =>
        LET payload == Unwrap(inner_args).payload
            expected == IF Unwrap(inner_args).D = "Sha256"
                        THEN <<0>> \o Sha256(payload)
                        ELSE Sha384(payload)
        IN  /\ from_be_slice(expected)
            /\ IsOk(inner_result) <=> SignedPrehash = expected
            /\ SignedPrehash # expected => inner_result = Err("InvalidSignature")

\* a signature over the zero-padded SHA-256 digest is accepted by a P-384 key
C22_Witness ==
    /\ EcdsaCalledOn("CurveP384")
    /\ Unwrap(inner_args).D = "Sha256"
    /\ IsOk(inner_result)
    /\ Len(SignedPrehash) = Len(Sha256(Unwrap(inner_args).payload)) + 1
    /\ SignedPrehash[1] = 0

-----------------------------------------------------------------------------
(* C23 *)

\* C23: also with a P-256 key the digest is the one the signature OID selects:
\* validate_ecdsa::<Sha384> accepts exactly the signatures made over the
\* SHA-384 digest of the payload (cut to the size of the curve), and none made
\* over its SHA-256 digest where the two differ.
C23_DigestByOidOnP256 ==
    (EcdsaCalledOn("CurveP256") /\ Unwrap(inner_args).D = "Sha384") =>
        (IsOk(inner_result) <=>
            SignedPrehash = Scalar("CurveP256", Sha384(Unwrap(inner_args).payload)))

-----------------------------------------------------------------------------
(* C24 *)

\* C24: for every extension value that is one SEQUENCE starting with an
\* INTEGER, peek_attestation_version returns that integer, whatever elements
\* follow it inside the SEQUENCE.
C24_PeekReturnsFirstInteger ==
    (inner_result # NotCalled
     /\ Unwrap(inner_args).fn = "peek_attestation_version") =>
        LET data == Unwrap(inner_args).data
        IN  (/\ data.der = "SEQUENCE"
             /\ ~data.trailing
             /\ IsSome(data.first)
             /\ Unwrap(data.first).tag = "INTEGER") =>
                inner_result = Ok(Unwrap(data.first).value)

-----------------------------------------------------------------------------
(* C25 *)

\* C25: when the value of the attestation extension is one SEQUENCE that is
\* empty or starts with an element that is no INTEGER, extract_attestation
\* fails with ParseError.
C25_MisshapenValueIsParseError ==
    (ext_result # NotCalled /\ Attested) =>
        LET v == AttestationValue
        IN  (/\ v.der = "SEQUENCE"
             /\ ~v.trailing
             /\ (~IsSome(v.first) \/ Unwrap(v.first).tag # "INTEGER")) =>
                ext_result = Err("ParseError")

-----------------------------------------------------------------------------
(* C26 *)

\* C26: validate_certificate_chain returns for every chain: when it is done its
\* result is Ok or a ValidationError, never an abort.
C26_ChainValidationReturns ==
    Done => chain_result.status \in {"Ok", "Err"}

-----------------------------------------------------------------------------
(* C27 *)

\* the signature of c was made with the private key of `key` over a digest of
\* the tbsCertificate of c
SignedByKey(c, key) ==
    LET payload == EncodeTbs(c.tbs_certificate)
        sig == c.signature_value
    IN  IF key.kind = "RSA"
        THEN /\ key.modulus > 0
             /\ LET computed == ToBytesBE(ModPow(FromBytesBE(sig.bytes),
                                                 key.exponent, key.modulus))
                    hashed == Sha256(payload)
                IN  /\ Len(computed) >= Len(hashed)
                    /\ SubSeq(computed, Len(computed) - Len(hashed) + 1,
                              Len(computed)) = hashed
        ELSE /\ IsSome(sig.ecdsa)
             /\ Unwrap(sig.ecdsa).point = key.point
             /\ \E d \in Digests :
                    Unwrap(sig.ecdsa).prehash = Scalar(key.curve, Digest(d, payload))

\* both calls were made on the chain and both succeeded
BothSucceeded == Accepted /\ IsOk(root_result)

RootAloneSucceeds ==
    Done /\ IsOk(root_result) /\ chain_result = Err("InvalidSignature")

\* validate_certificate_chain alone accepts a chain with an untrusted root
ChainAloneSucceeds ==
    Accepted /\ root_result = Err("UntrustedRoot")

-----------------------------------------------------------------------------
(* C28 *)

\* the certificate the fold stopped at
StoppedAt == chain[idx + 1]

\* the fold stopped at a certificate because one of its steps failed
Stopped == Done /\ ~IsOk(chain_result) /\ idx < Len(chain)

\* the outcome of verifying the signature of c under `key`
SignatureVerdict(c, key) ==
    validate(Unwrap(parse_cert(c).value), Unwrap(parse_cert_payload(c).value), key)

\* C28: the steps of one certificate run in the order parse, payload, key
\* extraction, signature verification, id, and the first that fails decides
\* the outcome: a certificate that does not parse gives ParseError; one that
\* parses and has no supported, well-formed key gives the error of the key
\* extraction, whatever its signature is; only a certificate with a key gives
\* the outcome of its signature verification. Every certificate of an accepted
\* chain, the last included, has a supported and well-formed key.
C28_StepOrderDecides ==
    /\ Stopped =>
          /\ ~Parses(StoppedAt) => chain_result = Err("ParseError")
          /\ (Parses(StoppedAt) /\ ~IsOk(KeyOf(StoppedAt))) =>
                chain_result = KeyOf(StoppedAt)
          /\ HasKey(StoppedAt) =>
                chain_result = SignatureVerdict(StoppedAt,
                    Verifier(prev_pbk, Unwrap(KeyOf(StoppedAt).value)))
    /\ Accepted => \A i \in 1..Len(chain) : HasKey(chain[i])

\* a certificate with a key of an unknown algorithm and a signature that does
\* not verify under the key of its predecessor is refused for its key
C28_Witness ==
    /\ Stopped
    /\ idx >= 1
    /\ Parses(StoppedAt)
    /\ KeyOf(StoppedAt) = Err("UnsupportedPublicKeyAlgorithm")
    /\ SignatureVerdict(StoppedAt, Unwrap(prev_pbk)) = Err("InvalidSignature")
    /\ chain_result = Err("UnsupportedPublicKeyAlgorithm")

-----------------------------------------------------------------------------
(* C29 *)

\* the chain of the same kinds of certificates, all issued under one name
SameKindsOneName ==
    LET kinds == Unwrap(inner_args).kinds
        name == [i \in 1..Len(kinds) |-> GoogleName]
    IN  NamedChain(kinds, name, name)

\* what a call answers apart from the ids: success or the error, and the key
Verdict(r) ==
    [status |-> r.status, error |-> r.error,
     pbk |-> IF IsOk(r) THEN Some(Unwrap(r.value).pbk) ELSE None]

\* C29: the verdict of validate_certificate_chain does not depend on the names
\* in the certificates: a chain gets the verdict of the chain of certificates
\* with the same keys, signed by the same keys, that all carry one name as
\* issuer and subject. The issuer names are found in the returned ids only.
C29_VerdictIgnoresNames ==
    (Done /\ IsSome(inner_args)
          /\ Unwrap(inner_args).fn = "validate_certificate_chain") =>
        /\ Verdict(chain_result) =
              Verdict(validate_certificate_chain(SameKindsOneName, <<>>).result)
        /\ Accepted =>
              \A k \in 1..Len(chain) :
                  Unwrap(chain_result.value).cert_ids[k][1] =
                      write_single(Unwrap(inner_args).issuers[k])

\* an accepted chain of three certificates none of which names the subject of
\* its predecessor as its issuer
C29_Witness ==
    /\ Accepted
    /\ IsSome(inner_args)
    /\ Len(chain) = 3
    /\ \A i \in 2..3 :
          chain[i].tbs_certificate.issuer # chain[i - 1].tbs_certificate.subject
    /\ chain[1].tbs_certificate.issuer # chain[1].tbs_certificate.subject

====
